---- MODULE Spec2Model ----
(***************************************************************************)
(* Transcript resolution chain, subtitle parser, chunking and the retry    *)
(* loop around the text-generation call of the Hyunobono/Output repository *)
(* (src/app/yt_utils.py, src/transcript_pipeline.py, src/summarizer.py,    *)
(* src/pipeline_plus.py, src/server.py, src/app/main.py).                  *)
(*                                                                         *)
(* Text is a sequence of one-character strings; a time is an integer       *)
(* number of milliseconds; a backoff delay is an integer number of         *)
(* sixteenths of a second (1.5^k is exact in sixteenths for k <= 4).       *)
(***************************************************************************)
EXTENDS Integers, Sequences, FiniteSets, TLC

\* ------------------------------------------------------------------------
\* Bounds of the model
\* ------------------------------------------------------------------------
MaxTextLen == 4
MaxChunkChars == 3
MaxVttLines == 4
MaxPrio == 2
MaxTracks == 2
MaxChunks == 3
MaxSegs == 3

\* ------------------------------------------------------------------------
\* Python string and list primitives
\* ------------------------------------------------------------------------
NL == "\n"
SP == " "
DOT == "."
Whitespace == {SP, NL, "\t"}
None == -1

RECURSIVE SeqsUpTo(_, _)
SeqsUpTo(S, n) ==
  IF n = 0 THEN {<<>>}
  ELSE LET shorter == SeqsUpTo(S, n - 1)
       IN shorter \cup {Append(s, x) : s \in {t \in shorter : Len(t) = n - 1}, x \in S}

\* str.lstrip() / str.rstrip() / str.strip() with no argument
RECURSIVE LStrip(_)
LStrip(s) == IF s # <<>> /\ Head(s) \in Whitespace THEN LStrip(Tail(s)) ELSE s

RECURSIVE RStrip(_)
RStrip(s) ==
  IF s # <<>> /\ s[Len(s)] \in Whitespace THEN RStrip(SubSeq(s, 1, Len(s) - 1)) ELSE s

Strip(s) == RStrip(LStrip(s))

\* str.split(sep) for a one-character separator
RECURSIVE SplitChar(_, _)
SplitChar(s, c) ==
  IF \E k \in 1..Len(s) : s[k] = c
  THEN LET k == CHOOSE j \in 1..Len(s) : s[j] = c /\ \A h \in 1..(j - 1) : s[h] # c
       IN <<SubSeq(s, 1, k - 1)>> \o SplitChar(SubSeq(s, k + 1, Len(s)), c)
  ELSE <<s>>

\* str.split(". "): the two-character separator, leftmost matches first
IsDotSpaceAt(s, k) == k + 1 <= Len(s) /\ s[k] = DOT /\ s[k + 1] = SP

RECURSIVE SplitDotSpace(_)
SplitDotSpace(s) ==
  IF \E k \in 1..Len(s) : IsDotSpaceAt(s, k)
  THEN LET k == CHOOSE j \in 1..Len(s) :
                  IsDotSpaceAt(s, j) /\ \A h \in 1..(j - 1) : ~IsDotSpaceAt(s, h)
       IN <<SubSeq(s, 1, k - 1)>> \o SplitDotSpace(SubSeq(s, k + 2, Len(s)))
  ELSE <<s>>

\* str.splitlines(): like split("\n") but without the empty piece after a final "\n"
SplitLines(s) ==
  IF s = <<>> THEN <<>>
  ELSE LET parts == SplitChar(s, NL)
       IN IF parts[Len(parts)] = <<>> THEN SubSeq(parts, 1, Len(parts) - 1) ELSE parts

\* sep.join(list)
RECURSIVE Join(_, _)
Join(parts, sep) ==
  IF parts = <<>> THEN <<>>
  ELSE IF Len(parts) = 1 THEN parts[1]
  ELSE parts[1] \o sep \o Join(Tail(parts), sep)

\* "".join(list)
RECURSIVE Concat(_)
Concat(parts) == IF parts = <<>> THEN <<>> ELSE Head(parts) \o Concat(Tail(parts))

\* the characters of s that are not in the set drop, in order
RECURSIVE Without(_, _)
Without(s, drop) ==
  IF s = <<>> THEN <<>>
  ELSE (IF Head(s) \in drop THEN <<>> ELSE <<Head(s)>>) \o Without(Tail(s), drop)

\* ------------------------------------------------------------------------
\* _chunk_text (src/summarizer.py)
\* ------------------------------------------------------------------------
\* one pass of the sentence loop: state st = [chunks, sent]
SentenceStep(st, s, max) ==
  LET s2 == Strip(s \o <<DOT, SP>>)
  IN IF Len(st.sent) + Len(s2) <= max
     THEN [chunks |-> st.chunks, sent |-> st.sent \o s2 \o <<SP>>]
     ELSE [chunks |-> IF st.sent # <<>> THEN Append(st.chunks, Strip(st.sent))
                      ELSE st.chunks,
           sent |-> s2]

RECURSIVE SentenceLoop(_, _, _)
SentenceLoop(st, sents, max) ==
  IF sents = <<>> THEN st
  ELSE SentenceLoop(SentenceStep(st, Head(sents), max), Tail(sents), max)

\* the chunks the else-branch emits for a paragraph p longer than max
SplitLongParagraph(p, max) ==
  LET st == SentenceLoop([chunks |-> <<>>, sent |-> <<>>], SplitDotSpace(p), max)
  IN IF st.sent # <<>> THEN Append(st.chunks, Strip(st.sent)) ELSE st.chunks

\* one pass of the paragraph loop: state st = [chunks, cur]
ParagraphStep(st, p, max) ==
  IF Len(st.cur) + Len(p) + 1 <= max
  THEN [chunks |-> st.chunks,
        cur |-> st.cur \o (IF st.cur # <<>> THEN <<NL>> ELSE <<>>) \o p]
  ELSE LET flushed == IF st.cur # <<>> THEN Append(st.chunks, st.cur) ELSE st.chunks
       IN IF Len(p) <= max
          THEN [chunks |-> flushed, cur |-> p]
          ELSE [chunks |-> flushed \o SplitLongParagraph(p, max), cur |-> <<>>]

RECURSIVE ParagraphLoop(_, _, _)
ParagraphLoop(st, paras, max) ==
  IF paras = <<>> THEN st
  ELSE ParagraphLoop(ParagraphStep(st, Head(paras), max), Tail(paras), max)

ChunkTextSummarizer(text, max) ==
  LET st == ParagraphLoop([chunks |-> <<>>, cur |-> <<>>], SplitChar(text, NL), max)
  IN IF st.cur # <<>> THEN Append(st.chunks, st.cur) ELSE st.chunks

\* ------------------------------------------------------------------------
\* chunk_text (src/pipeline_plus.py)
\* ------------------------------------------------------------------------
\* one pass of the line loop: state st = [chunks, buf, size]
LineStep(st, rawline, max) ==
  LET line == Strip(rawline)
  IN IF line = <<>> THEN st
     ELSE LET fl == IF st.size + Len(line) + 1 > max
                    THEN [chunks |-> Append(st.chunks, Join(st.buf, <<NL>>)),
                          buf |-> <<>>, size |-> 0]
                    ELSE st
          IN [chunks |-> fl.chunks,
              buf |-> Append(fl.buf, line),
              size |-> fl.size + Len(line) + 1]

RECURSIVE LineLoop(_, _, _)
LineLoop(st, lines, max) ==
  IF lines = <<>> THEN st
  ELSE LineLoop(LineStep(st, Head(lines), max), Tail(lines), max)

ChunkTextPipelinePlus(text, max) ==
  LET st == LineLoop([chunks |-> <<>>, buf |-> <<>>, size |-> 0], SplitLines(text), max)
  IN IF st.buf # <<>> THEN Append(st.chunks, Join(st.buf, <<NL>>)) ELSE st.chunks

\* ------------------------------------------------------------------------
\* parse_vtt (src/app/yt_utils.py)
\*
\* A line of a subtitle file is a record: the empty line [k |-> "blank"]; a
\* line that starts with "WEBVTT" [k |-> "webvtt"]; a timestamp-range line
\* [k |-> "range", fmt, s, e] in the notation fmt ("hms": H:MM:SS.mmm, "ms":
\* MM:SS.mmm) with the digit groups s and e = [h, m, ms]; a range line that
\* lacks its end timestamp [k |-> "open", fmt, s]; any other line
\* [k |-> "text", raw] with its characters.
\* ------------------------------------------------------------------------
\* the characters of a range line, for a parser that does not recognise it
RangeRaw(line) ==
  <<ToString(line.s.m), ":", ToString(line.s.ms), SP, "-->", SP,
    ToString(line.e.m), ":", ToString(line.e.ms)>>

\* the characters of a range line without its end timestamp
StartOnlyRaw(line) == <<ToString(line.s.m), ":", ToString(line.s.ms), SP, "-->">>

\* the characters of a line that neither ts_hms nor ts_ms matches
LineRaw(line) == IF line.k = "open" THEN StartOnlyRaw(line) ELSE line.raw

to_sec_hms(t) == t.h * 3600000 + t.m * 60000 + t.ms

to_sec_ms(t) == t.m * 60000 + t.ms

\* flush() if it forgot to empty the text buffer
flush_keeps_buf(st) ==
  [items |-> IF st.buf # <<>> /\ st.start_t # None
             THEN LET txt == Strip(Join(st.buf, <<SP>>))
                  IN IF txt # <<>>
                     THEN Append(st.items,
                                 [start |-> st.start_t,
                                  end |-> IF st.end_t # None THEN st.end_t
                                          ELSE st.start_t + 2000,
                                  text |-> txt])
                     ELSE st.items
             ELSE st.items,
   buf |-> st.buf, start_t |-> None, end_t |-> None]

\* flush(): state st = [items, buf, start_t, end_t]
flush(st) ==
  [items |-> IF st.buf # <<>> /\ st.start_t # None
             THEN LET txt == Strip(Join(st.buf, <<SP>>))
                  IN IF txt # <<>>
                     THEN Append(st.items,
                                 [start |-> st.start_t,
                                  end |-> IF st.end_t # None THEN st.end_t
                                          ELSE st.start_t + 2000,
                                  text |-> txt])
                     ELSE st.items
             ELSE st.items,
   buf |-> <<>>, start_t |-> None, end_t |-> None]

\* one pass of the line loop of parse_vtt
VttLine(st, line) ==
  CASE line.k \in {"blank", "webvtt"} -> st
    [] line.k = "range" /\ line.fmt = "hms" ->
         [flush(st) EXCEPT !.start_t = to_sec_hms(line.s), !.end_t = to_sec_hms(line.e)]
    [] line.k = "range" /\ line.fmt = "ms" ->
         [flush(st) EXCEPT !.start_t = to_sec_ms(line.s), !.end_t = to_sec_ms(line.e)]
    [] OTHER -> [st EXCEPT !.buf = Append(st.buf, Strip(LineRaw(line)))]

RECURSIVE VttLoop(_, _)
VttLoop(st, lines) ==
  IF lines = <<>> THEN st ELSE VttLoop(VttLine(st, Head(lines)), Tail(lines))

parse_vtt(lines) ==
  flush(VttLoop([items |-> <<>>, buf |-> <<>>, start_t |-> None, end_t |-> None],
                lines)).items

\* ------------------------------------------------------------------------
\* the parser inside fetch_captions_via_ytdlp (src/transcript_pipeline.py)
\* ------------------------------------------------------------------------
\* flush() if it did not ask for a start time
tp_flush_without_start(st) ==
  [items |-> IF st.buf # <<>>
             THEN Append(st.items,
                         [start |-> st.start_t,
                          end |-> IF st.end_t # None /\ st.end_t # 0 THEN st.end_t
                                  ELSE st.start_t + 2000,
                          text |-> Strip(Join(st.buf, <<SP>>))])
             ELSE st.items,
   buf |-> <<>>, start_t |-> None, end_t |-> None]

\* flush(): state st = [items, buf, start_t, end_t]; an end time of 0 is falsy
tp_flush(st) ==
  [items |-> IF st.buf # <<>> /\ st.start_t # None
             THEN Append(st.items,
                         [start |-> st.start_t,
                          end |-> IF st.end_t # None /\ st.end_t # 0 THEN st.end_t
                                  ELSE st.start_t + 2000,
                          text |-> Strip(Join(st.buf, <<SP>>))])
             ELSE st.items,
   buf |-> <<>>, start_t |-> None, end_t |-> None]

\* one pass of the line loop: ts_pattern knows the H:MM:SS.mmm notation only
TpVttLine(st, line) ==
  CASE line.k = "range" /\ line.fmt = "hms" ->
         [tp_flush(st) EXCEPT !.start_t = to_sec_hms(line.s),
                              !.end_t = to_sec_hms(line.e)]
    [] line.k = "range" /\ line.fmt = "ms" ->
         [st EXCEPT !.buf = Append(st.buf, Strip(RangeRaw(line)))]
    [] line.k = "open" ->
         [st EXCEPT !.buf = Append(st.buf, Strip(StartOnlyRaw(line)))]
    [] line.k = "text" /\ Strip(line.raw) # <<>> ->
         [st EXCEPT !.buf = Append(st.buf, Strip(line.raw))]
    [] OTHER -> st

RECURSIVE TpVttLoop(_, _)
TpVttLoop(st, lines) ==
  IF lines = <<>> THEN st ELSE TpVttLoop(TpVttLine(st, Head(lines)), Tail(lines))

ParseVttInline(lines) ==
  tp_flush(TpVttLoop([items |-> <<>>, buf |-> <<>>, start_t |-> None, end_t |-> None],
                     lines)).items

\* ------------------------------------------------------------------------
\* State
\* ------------------------------------------------------------------------
VARIABLES
  \* _gemini (src/pipeline_plus.py)
  gpc,        \* "idle", "post", "sleep", "exhausted", "returned", "raised"
  payload,    \* the argument of the call
  attempt,    \* the loop variable of range(5)
  sent,       \* the payloads posted so far, in order
  responses,  \* what each post answered: a status code, or TimedOut
  slept,      \* the delays slept so far, in sixteenths of a second
  gres,       \* how the call ended: [kind, error, status, body]
  \* _chunk_text (src/summarizer.py) and chunk_text (src/pipeline_plus.py)
  ctext,      \* the text to split
  cmax,       \* max_chars
  cfun,       \* which function ran: "none", "summarizer", "pipeline_plus"
  chunks,     \* what it returned
  \* the subtitle parsers
  vlines,     \* the lines of the subtitle file
  vparser,    \* which parser ran: "none", "app", "tp"
  vitems,     \* what it returned
  \* one request: the caller and fetch_transcript_if_available
  caller,     \* "server" (src/server.py, src/pipeline.py) or "app_main" (src/app/main.py)
  force,      \* force_whisper
  prio,       \* lang_priority
  official,   \* what the official-caption lookup answers for each language
  pc,         \* where the request is
  idx,        \* the position of the running for-loop
  tracks,     \* the caption tracks list_transcripts returned
  files,      \* the subtitle files the downloader wrote, in glob order
  calls,      \* the collaborators invoked so far, in order
  ret,        \* what fetch_transcript_if_available returned: [kind, value]
  capsDir,    \* the "caps_" temporary directory: "none", "exists", "deleted"
  audioDir,   \* the temporary directory of the audio fallback, likewise
  text,       \* the caller's plain text
  used,       \* the caller's source tag
  \* the summarisation of a text (src/summarizer.py, src/pipeline_plus.py)
  spc,        \* "idle", "single", "partial", "brief", "detailed", "solutions",
              \* "extras", "returned", "raised"
  sfun,       \* which function runs: "none", "long_gemini", "long_openai",
              \* "chunks_gemini", "chunks_openai", "summarize_large", "run_pipeline",
              \* "app_summarizer"
  schunks,    \* the chunks of the text
  partials,   \* the partial summaries collected so far
  reqs,       \* the text-generation requests issued so far, in order
  answers,    \* what the service answered to each of them: [ok, text]
  sout,       \* how the summarisation ended: [kind, error, value]
  \* extract_video_id
  url,        \* the argument
  ufun,       \* which implementation ran: "none", "app", "tp", "pipeline_plus"
  uret,       \* what it did: [kind, value]
  \* transcript_to_plaintext / whisper_to_plaintext
  psegs,      \* the segments
  pfun,       \* which function ran: "none", "transcript", "whisper_app", "whisper_tp"
  pout        \* the text it returned

gemVars == <<gpc, payload, attempt, sent, responses, slept, gres>>
chunkVars == <<ctext, cmax, cfun, chunks>>
vttVars == <<vlines, vparser, vitems>>
chainVars == <<caller, force, prio, official, pc, idx, tracks, files, calls, ret,
               capsDir, audioDir, text, used>>
summVars == <<spc, sfun, schunks, partials, reqs, answers, sout>>
urlVars == <<url, ufun, uret>>
plainVars == <<psegs, pfun, pout>>
vars == <<gemVars, chunkVars, vttVars, chainVars, summVars, urlVars, plainVars>>

\* ------------------------------------------------------------------------
\* _gemini (src/pipeline_plus.py)
\* ------------------------------------------------------------------------
MaxAttempts == 5

Payloads == {"p1", "p2"}

TransientStatuses == {500, 502, 503, 504, 429}

\* what requests.post can answer: a response with a status, or no response in 180 s
Statuses == TransientStatuses \cup {200, 400, 401, 403, 404}
TimedOut == None
Answers == Statuses \cup {TimedOut}

RECURSIVE Pow(_, _)
Pow(b, n) == IF n = 0 THEN 1 ELSE b * Pow(b, n - 1)

\* sixteenths in a second: 1.5^k is a whole number of them for k < MaxAttempts
DelayUnit == Pow(2, MaxAttempts - 1)

\* the delay if the base of the backoff were 2
DelayDoubling(k) == Pow(2, k) * DelayUnit

\* 1.5 ** attempt
Delay(k) == (Pow(3, k) * DelayUnit) \div Pow(2, k)

\* the retry test if every error status were retried
IsTransientAnyError(status) == status >= 400

\* r.status_code in (500,502,503,504,429)
IsTransient(status) == status \in TransientStatuses

\* raise_for_status if it raised for client errors only
RaiseForStatusClientOnly(status) == 400 <= status /\ status < 500

\* requests' Response.raise_for_status(): raises HTTPError for 4xx and 5xx
RaiseForStatus(status) == 400 <= status /\ status < 600

NoResult == [kind |-> "none", error |-> "", status |-> 0, body |-> 0]
Raised(err, status) == [kind |-> "raised", error |-> err, status |-> status, body |-> 0]
Returned(body) == [kind |-> "returned", error |-> "", status |-> 200, body |-> body]

\* the body if the call kept that of its first response
FirstResponseBody(k) == 1

\* r.json() of the k-th response of the call: bodies are told apart by k
ResponseBody(k) == k

GemFrame == UNCHANGED <<chunkVars, vttVars, chainVars, summVars, urlVars, plainVars>>

GemIdle ==
  /\ gpc = "idle" /\ payload = "" /\ attempt = 0
  /\ sent = <<>> /\ responses = <<>> /\ slept = <<>> /\ gres = NoResult

\* the call: os.environ["GEMINI_API_KEY"] raises KeyError when the key is not set
GeminiCall ==
  /\ gpc = "idle"
  /\ \E p \in Payloads, hasKey \in BOOLEAN :
       /\ payload' = p
       /\ IF hasKey
          THEN gpc' = "post" /\ gres' = gres
          ELSE gpc' = "raised" /\ gres' = Raised("KeyError", 0)
  /\ UNCHANGED <<attempt, sent, responses, slept>>
  /\ GemFrame

\* r = requests.post(url, json=payload, timeout=180) and the tests on r
GeminiPost ==
  /\ gpc = "post"
  /\ attempt < MaxAttempts
  /\ \E a \in Answers :
       /\ sent' = Append(sent, payload)
       /\ responses' = Append(responses, a)
       /\ IF a = TimedOut
          THEN gpc' = "raised" /\ gres' = Raised("Timeout", 0)
          ELSE IF IsTransient(a)
          THEN gpc' = "sleep" /\ gres' = gres
          ELSE IF RaiseForStatus(a)
          THEN gpc' = "raised" /\ gres' = Raised("HTTPError", a)
          ELSE gpc' = "returned" /\ gres' = Returned(ResponseBody(Len(sent) + 1))
  /\ UNCHANGED <<payload, attempt, slept>>
  /\ GemFrame

\* time.sleep(1.5**attempt); continue
GeminiSleep ==
  /\ gpc = "sleep"
  /\ slept' = Append(slept, Delay(attempt))
  /\ attempt' = attempt + 1
  /\ gpc' = IF attempt + 1 < MaxAttempts THEN "post" ELSE "exhausted"
  /\ UNCHANGED <<payload, sent, responses, gres>>
  /\ GemFrame

\* after the loop: r.raise_for_status() on the last response, else fall off the end
GeminiExhausted ==
  /\ gpc = "exhausted"
  /\ IF RaiseForStatus(responses[Len(responses)])
     THEN gpc' = "raised" /\ gres' = Raised("HTTPError", responses[Len(responses)])
     ELSE gpc' = "returned" /\ gres' = Returned(None)
  /\ UNCHANGED <<payload, attempt, sent, responses, slept>>
  /\ GemFrame

\* ------------------------------------------------------------------------
\* The chunking functions applied to a text
\* ------------------------------------------------------------------------
Chars == {"a", DOT, SP, NL}

Texts == SeqsUpTo(Chars, MaxTextLen)

ChunkFrame == UNCHANGED <<gemVars, vttVars, chainVars, summVars, urlVars, plainVars>>

ChunkIdle == ctext = <<>> /\ cmax = 1 /\ cfun = "none" /\ chunks = <<>>

\* _chunk_text(text, max_chars)
CallChunkTextSummarizer ==
  /\ cfun = "none"
  /\ cfun' = "summarizer"
  /\ chunks' = ChunkTextSummarizer(ctext, cmax)
  /\ UNCHANGED <<ctext, cmax>>
  /\ ChunkFrame

\* chunk_text(s, max_chars)
CallChunkTextPipelinePlus ==
  /\ cfun = "none"
  /\ cfun' = "pipeline_plus"
  /\ chunks' = ChunkTextPipelinePlus(ctext, cmax)
  /\ UNCHANGED <<ctext, cmax>>
  /\ ChunkFrame

\* ------------------------------------------------------------------------
\* The subtitle parsers applied to a file
\* ------------------------------------------------------------------------
\* the digit groups of a timestamp
Stamps == {[h |-> 0, m |-> 0, ms |-> 1000], [h |-> 0, m |-> 1, ms |-> 3000]}

RangeLines == [k : {"range"}, fmt : {"hms", "ms"}, s : Stamps, e : Stamps]

TextLines == [k : {"text"}, raw : {<<"H", "i">>, <<SP, "y", "o">>, <<SP>>}]

\* range lines that stop after the arrow
OpenLines == [k : {"open"}, fmt : {"hms", "ms"}, s : {[h |-> 0, m |-> 0, ms |-> 1000]}]

VttLines ==
  {[k |-> "blank"], [k |-> "webvtt"]} \cup RangeLines \cup OpenLines \cup TextLines

VttFrame == UNCHANGED <<gemVars, chunkVars, chainVars, summVars, urlVars, plainVars>>

VttIdle == vlines = <<>> /\ vparser = "none" /\ vitems = <<>>

\* parse_vtt(path) of src/app/yt_utils.py
CallParseVtt ==
  /\ pc = "idle"
  /\ vparser = "none"
  /\ vparser' = "app"
  /\ vitems' = parse_vtt(vlines)
  /\ UNCHANGED vlines
  /\ VttFrame

\* the parser inside fetch_captions_via_ytdlp of src/transcript_pipeline.py
CallParseVttInline ==
  /\ pc = "idle"
  /\ vparser = "none"
  /\ vparser' = "tp"
  /\ vitems' = ParseVttInline(vlines)
  /\ UNCHANGED vlines
  /\ VttFrame

\* ------------------------------------------------------------------------
\* One request: the caller, fetch_transcript_if_available and
\* fetch_captions_via_ytdlp
\* ------------------------------------------------------------------------
Langs == {"ko", "en"}

\* what YouTubeTranscriptApi.get_transcript / Transcript.fetch can do: raise,
\* return no segment, return segments without text, return segments
ApiOutcomes == {"raise", "empty", "blank", "segs"}

\* the {text, start, duration} segments of a caption source
ApiSegs(outcome, src, tag) ==
  CASE outcome = "segs" -> <<[text |-> <<src, tag>>, start |-> 0, duration |-> 1000]>>
    [] outcome = "blank" -> <<[text |-> <<>>, start |-> 0, duration |-> 1000]>>
    [] OTHER -> <<>>

Tracks == [is_generated : BOOLEAN, fetch : {"raise", "empty", "segs"}]

\* the subtitle files a download can leave: <vid>.<lang>.vtt with its lines
Fixtures ==
  { <<>>,
    <<[k |-> "webvtt"], [k |-> "blank"],
      [k |-> "range", fmt |-> "hms", s |-> [h |-> 0, m |-> 0, ms |-> 1000],
                                     e |-> [h |-> 0, m |-> 0, ms |-> 3000]],
      [k |-> "text", raw |-> <<SP>>]>>,
    <<[k |-> "range", fmt |-> "hms", s |-> [h |-> 0, m |-> 0, ms |-> 1000],
                                     e |-> [h |-> 0, m |-> 0, ms |-> 3000]],
      [k |-> "text", raw |-> <<"H", "i">>], [k |-> "blank"],
      [k |-> "range", fmt |-> "hms", s |-> [h |-> 0, m |-> 0, ms |-> 3000],
                                     e |-> [h |-> 0, m |-> 0, ms |-> 5000]],
      [k |-> "text", raw |-> <<"y", "o">>]>> }

FileLangs == {"ko", "en", "en-US"}

SubtitleFiles == [lang : FileLangs, lines : Fixtures]

FileLists ==
  {fs \in SeqsUpTo(SubtitleFiles, 2) :
     \A a, b \in 1..Len(fs) : a # b => fs[a].lang # fs[b].lang}

impl == IF caller = "app_main" THEN "app" ELSE "tp"

\* prio = lang_priority or ["ko", "en"] (yt_utils); lang_priority itself (transcript_pipeline)
EffPrio == IF impl = "app" /\ prio = <<>> THEN <<"ko", "en">> ELSE prio

\* the handlers if fetch_captions_via_ytdlp had no try/except of its own
OnExceptionUncaughtYtdlp(site) ==
  CASE site = "get_transcript" -> "continue"
    [] site = "list_transcripts" -> IF impl = "app" THEN "next" ELSE "none"
    [] site = "fetch" -> "continue"
    [] site = "ytdlp" -> "propagate"

\* where an exception raised at a site of fetch_transcript_if_available goes:
\* "continue" the loop, "next" strategy, "none" (return None), "propagate"
OnException(site) ==
  CASE site = "get_transcript" -> "continue"
    [] site = "list_transcripts" -> IF impl = "app" THEN "next" ELSE "none"
    [] site = "fetch" -> "continue"
    [] site = "ytdlp" -> "none"

Pending == [kind |-> "pending", value |-> <<>>]
RetNone == [kind |-> "none", value |-> <<>>]
RetValue(t) == [kind |-> "value", value |-> t]
RetRaised == [kind |-> "raised", value |-> <<>>]

Call(op, arg) == [op |-> op, arg |-> arg]

\* x.get("text"): the text of a segment, falsy when the key is missing
GetText(x) == IF "text" \in DOMAIN x THEN x.text ELSE <<>>

\* [x.get("text", "").strip() for x in trans if x.get("text")]
RECURSIVE TextsOf(_)
TextsOf(trans) ==
  IF trans = <<>> THEN <<>>
  ELSE (IF GetText(Head(trans)) # <<>> THEN <<Strip(GetText(Head(trans)))>> ELSE <<>>)
       \o TextsOf(Tail(trans))

\* transcript_to_plaintext, and whisper_to_plaintext of src/app/yt_utils.py
transcript_to_plaintext(trans) == Join(TextsOf(trans), <<NL>>)

\* [x["text"] for x in segments if x.get("text")]
RECURSIVE RawTextsOf(_)
RawTextsOf(segments) ==
  IF segments = <<>> THEN <<>>
  ELSE (IF GetText(Head(segments)) # <<>> THEN <<GetText(Head(segments))>> ELSE <<>>)
       \o RawTextsOf(Tail(segments))

\* whisper_to_plaintext of src/transcript_pipeline.py
WhisperToPlaintextTp(segments) == Join(RawTextsOf(segments), <<NL>>)

ChainFrame == UNCHANGED <<gemVars, chunkVars, vttVars, summVars, urlVars, plainVars>>

ChainIdle ==
  /\ caller = "server" /\ force = FALSE /\ prio = <<>>
  /\ official = [l \in Langs |-> "raise"]
  /\ pc = "idle" /\ idx = 0 /\ tracks = <<>> /\ files = <<>> /\ calls = <<>>
  /\ ret = Pending /\ capsDir = "none" /\ audioDir = "none"
  /\ text = <<>> /\ used = "none"

\* fetch_transcript_if_available returns v to its caller; its locals are gone
Return(v) ==
  /\ ret' = v
  /\ pc' = "returned"
  /\ idx' = 0
  /\ tracks' = <<>>
  /\ files' = <<>>

\* leave strategy 1 or 2 for the given next strategy
Goto(next) ==
  /\ pc' = next
  /\ idx' = 1
  /\ ret' = ret

\* the caller: trans = fetch_transcript_if_available(url, lang_priority)
CallFetch ==
  /\ pc = "start"
  /\ caller # "run_pipeline"
  /\ ~force
  /\ pc' = IF EffPrio = <<>> THEN "list" ELSE "official"
  /\ idx' = 1
  /\ UNCHANGED <<audioDir, caller, force, prio, official, tracks, files, calls, ret, capsDir,
                 text, used>>
  /\ ChainFrame

\* the caller with force_whisper set: the caption path is skipped
SkipFetch ==
  /\ pc = "start"
  /\ force
  /\ pc' = "fb_audio"
  /\ UNCHANGED <<audioDir, caller, force, prio, official, idx, tracks, files, calls, ret,
                 capsDir, text, used>>
  /\ ChainFrame

\* strategy 1 if a non-empty result did not end the function
GetTranscriptNoReturn ==
  /\ pc = "official"
  /\ idx <= Len(EffPrio)
  /\ calls' = Append(calls, Call("get_transcript", EffPrio[idx]))
  /\ IF idx < Len(EffPrio)
     THEN pc' = pc /\ idx' = idx + 1 /\ UNCHANGED <<ret, tracks, files>>
     ELSE Goto("list") /\ UNCHANGED <<tracks, files>>
  /\ UNCHANGED <<audioDir, caller, force, prio, official, capsDir, text, used>>
  /\ ChainFrame

\* strategy 1, one pass: t = get_transcript(vid, languages=[code]); if t: return t
GetTranscript ==
  /\ pc = "official"
  /\ idx <= Len(EffPrio)
  /\ LET code == EffPrio[idx]
         t == ApiSegs(official[code], "official", code)
     IN /\ calls' = Append(calls, Call("get_transcript", code))
        /\ IF official[code] # "raise" /\ t # <<>>
           THEN Return(RetValue(t))
           ELSE IF official[code] = "raise" /\ OnException("get_transcript") = "propagate"
           THEN Return(RetRaised)
           ELSE IF idx < Len(EffPrio)
           THEN pc' = pc /\ idx' = idx + 1 /\ UNCHANGED <<ret, tracks, files>>
           ELSE Goto("list") /\ UNCHANGED <<tracks, files>>
  /\ UNCHANGED <<audioDir, caller, force, prio, official, capsDir, text, used>>
  /\ ChainFrame

\* strategy 2: transcripts = list_transcripts(vid)
ListTranscripts ==
  /\ pc = "list"
  /\ calls' = Append(calls, Call("list_transcripts", ""))
  /\ \/ \E trs \in SeqsUpTo(Tracks, MaxTracks) :
          /\ tracks' = trs
          /\ IF trs = <<>> THEN Goto("ytdlp") ELSE Goto("auto")
          /\ files' = files
     \/ CASE OnException("list_transcripts") = "next" ->
               Goto("ytdlp") /\ UNCHANGED <<tracks, files>>
          [] OnException("list_transcripts") = "none" -> Return(RetNone)
          [] OTHER -> Return(RetRaised)
  /\ UNCHANGED <<audioDir, caller, force, prio, official, capsDir, text, used>>
  /\ ChainFrame

\* strategy 2, one pass: if tr.is_generated: t = tr.fetch(); if t: return t
AutoTrack ==
  /\ pc = "auto"
  /\ idx <= Len(tracks)
  /\ LET tr == tracks[idx]
         t == ApiSegs(tr.fetch, "auto", ToString(idx))
         onward == IF idx < Len(tracks)
                   THEN pc' = pc /\ idx' = idx + 1 /\ UNCHANGED <<ret, tracks, files>>
                   ELSE Goto("ytdlp") /\ UNCHANGED <<tracks, files>>
     IN IF tr.is_generated
        THEN /\ calls' = Append(calls, Call("fetch", ToString(idx)))
             /\ IF tr.fetch # "raise" /\ t # <<>>
                THEN Return(RetValue(t))
                ELSE IF tr.fetch = "raise" /\ OnException("fetch") = "propagate"
                THEN Return(RetRaised)
                ELSE onward
        ELSE calls' = calls /\ onward
  /\ UNCHANGED <<audioDir, caller, force, prio, official, capsDir, text, used>>
  /\ ChainFrame

\* ------------------------------------------------------------------------
\* fetch_captions_via_ytdlp (strategy 3)
\* ------------------------------------------------------------------------
\* f".{code}.vtt" in p
FileMatches(file, code) == file.lang = code

RECURSIVE FilesMatching(_, _)
FilesMatching(fs, code) ==
  IF fs = <<>> THEN <<>>
  ELSE (IF FileMatches(Head(fs), code) THEN <<Head(fs)>> ELSE <<>>)
       \o FilesMatching(Tail(fs), code)

\* src/app/yt_utils.py: the first priority language whose file parses to
\* something; else the first file
RECURSIVE PickAndParseApp(_, _)
PickAndParseApp(fs, codes) ==
  IF codes = <<>> THEN parse_vtt(fs[1].lines)
  ELSE LET cand == FilesMatching(fs, Head(codes))
       IN IF cand # <<>> /\ parse_vtt(cand[1].lines) # <<>>
          THEN parse_vtt(cand[1].lines)
          ELSE PickAndParseApp(fs, Tail(codes))

\* src/transcript_pipeline.py: path = files[0]
PickAndParseTp(fs) == ParseVttInline(fs[1].lines)

\* the files src/app/yt_utils.py parses on the way, in order
RECURSIVE ParsedFilesApp(_, _)
ParsedFilesApp(fs, codes) ==
  IF codes = <<>> THEN <<fs[1]>>
  ELSE LET cand == FilesMatching(fs, Head(codes))
       IN IF cand = <<>> THEN ParsedFilesApp(fs, Tail(codes))
          ELSE IF parse_vtt(cand[1].lines) # <<>> THEN <<cand[1]>>
          ELSE <<cand[1]>> \o ParsedFilesApp(fs, Tail(codes))

\* the parse of each of these files, as calls
ParseCalls(fs) == [k \in 1..Len(fs) |-> Call("parse_vtt", fs[k].lang)]

\* what the function does to its temporary directory on the way out:
\* "finally: pass" in src/app/yt_utils.py, nothing in src/transcript_pipeline.py
CleanupOnExit(dir) == dir

\* fetch_captions_via_ytdlp returns v; fetch_transcript_if_available returns it
YtdlpReturn(v) ==
  /\ capsDir' = CleanupOnExit(capsDir)
  /\ Return(v)

\* tmpdir = tempfile.mkdtemp(prefix="caps_") and the downloader's options
YtdlpStart ==
  /\ pc = "ytdlp"
  /\ calls' = Append(calls, Call("fetch_captions_via_ytdlp", ""))
  /\ capsDir' = "exists"
  /\ pc' = "ytdlp_dl"
  /\ UNCHANGED <<audioDir, caller, force, prio, official, idx, tracks, files, ret, text, used>>
  /\ ChainFrame

\* the download and the glob of the .vtt files
YtdlpDownload ==
  /\ pc = "ytdlp_dl"
  /\ \/ \E fs \in FileLists :
          IF fs = <<>>
          THEN YtdlpReturn(RetNone)
          ELSE /\ files' = fs
               /\ pc' = "ytdlp_parse"
               /\ UNCHANGED <<idx, tracks, ret, capsDir>>
     \/ IF OnException("ytdlp") = "none"
        THEN YtdlpReturn(RetNone)
        ELSE YtdlpReturn(RetRaised)
  /\ UNCHANGED <<audioDir, caller, force, prio, official, calls, text, used>>
  /\ ChainFrame

\* the choice of the file and its parse; opening the file can raise
YtdlpParse ==
  /\ pc = "ytdlp_parse"
  /\ \/ LET parsed == IF impl = "app" THEN PickAndParseApp(files, EffPrio)
                      ELSE PickAndParseTp(files)
            opened == IF impl = "app" THEN ParsedFilesApp(files, EffPrio)
                      ELSE <<files[1]>>
        IN /\ YtdlpReturn(IF parsed # <<>> THEN RetValue(parsed) ELSE RetNone)
           /\ calls' = calls \o ParseCalls(opened)
     \/ /\ IF OnException("ytdlp") = "none"
           THEN YtdlpReturn(RetNone)
           ELSE YtdlpReturn(RetRaised)
        /\ calls' = calls
  /\ UNCHANGED <<audioDir, caller, force, prio, official, text, used>>
  /\ ChainFrame

\* ------------------------------------------------------------------------
\* The callers: summarize of src/server.py (main of src/pipeline.py runs the
\* same steps), summarize of src/app/main.py and run_pipeline of
\* src/pipeline_plus.py
\* ------------------------------------------------------------------------
\* where a caller goes once it holds its text: the two pipelines summarise it,
\* src/app/main.py answers with the text itself
TextReady == IF caller = "app_main" THEN "done" ELSE "summ"

\* run_pipeline: vid = extract_video_id(url); text = fetch_transcript_text(vid),
\* which is get_transcript(vid, languages=["ko","en"]) joined by spaces, or None
RunPipelineFetch ==
  /\ pc = "start"
  /\ caller = "run_pipeline"
  /\ \E found \in BOOLEAN :
       IF ~found
       THEN pc' = "failed" /\ UNCHANGED <<calls, text, used>>
       ELSE \E out \in ApiOutcomes :
              LET srt == ApiSegs(out, "official", "ko")
                  txt == Join(TextsOf(srt), <<SP>>)
              IN /\ calls' = Append(calls, Call("get_transcript", "ko,en"))
                 /\ text' = txt
                 /\ used' = IF Strip(txt) # <<>> THEN "captions" ELSE used
                 /\ pc' = IF Strip(txt) # <<>> THEN TextReady ELSE "fb_audio"
  /\ UNCHANGED <<audioDir, caller, force, prio, official, idx, tracks, files, ret, capsDir>>
  /\ ChainFrame

\* after fetch_transcript_if_available: "if trans:" and "if not text:"
AfterFetch ==
  /\ pc = "returned"
  /\ IF ret.kind = "raised"
     THEN pc' = "failed" /\ UNCHANGED <<text, used>>
     ELSE IF ret.kind = "value" /\ ret.value # <<>>
     THEN /\ text' = transcript_to_plaintext(ret.value)
          /\ used' = "captions"
          /\ pc' = IF caller = "server" /\ text' = <<>> THEN "fb_audio" ELSE TextReady
     ELSE pc' = "fb_audio" /\ UNCHANGED <<text, used>>
  /\ UNCHANGED <<audioDir, caller, force, prio, official, idx, tracks, files, calls, ret, capsDir>>
  /\ ChainFrame

\* the directory the audio goes to: tempfile.mkdtemp() in src/app/main.py and
\* run_pipeline, the fixed directory "out" in src/server.py
MakeAudioDir(dir) == IF caller = "server" THEN dir ELSE "exists"

\* where an exception of the audio fallback goes: src/app/main.py and
\* run_pipeline run their finally block first
AudioFailed == IF caller = "server" THEN "failed" ELSE "fb_finally_err"

\* audio = download_audio(url, outdir): raises when no audio file was produced
DownloadAudio ==
  /\ pc = "fb_audio"
  /\ calls' = Append(calls, Call("download_audio", ""))
  /\ audioDir' = MakeAudioDir(audioDir)
  /\ \E ok \in BOOLEAN : pc' = IF ok THEN "fb_whisper" ELSE AudioFailed
  /\ UNCHANGED <<caller, force, prio, official, idx, tracks, files, ret, capsDir,
                 text, used>>
  /\ ChainFrame

\* the tag if the audio fallback left it as it was
WhisperTagKept(tag) == tag

\* used["pipeline"] = "whisper"
WhisperTag(tag) == "whisper"

\* segs = whisper_transcribe_local(audio, hint); text = whisper_to_plaintext(segs)
\* (run_pipeline: text = transcribe_whisper(audio))
WhisperTranscribe ==
  /\ pc = "fb_whisper"
  /\ calls' = Append(calls, Call("whisper_transcribe_local", ""))
  /\ \E out \in {"raise", "empty", "segs"} :
       IF out = "raise"
       THEN pc' = AudioFailed /\ UNCHANGED <<text, used>>
       ELSE /\ text' = IF out = "segs" THEN <<"w">> ELSE <<>>
            /\ used' = WhisperTag(used)
            /\ pc' = IF caller = "server" THEN TextReady ELSE "fb_finally_ok"
  /\ UNCHANGED <<audioDir, caller, force, prio, official, idx, tracks, files, ret, capsDir>>
  /\ ChainFrame

\* the cleanup if the rmtree were left out
RmtreeLeftOut(dir) == dir

\* shutil.rmtree(tmp)
Rmtree(dir) == IF dir = "exists" THEN "deleted" ELSE dir

\* the finally block around the audio fallback of src/app/main.py and run_pipeline
AudioFinally ==
  /\ pc \in {"fb_finally_ok", "fb_finally_err"}
  /\ audioDir' = Rmtree(audioDir)
  /\ pc' = IF pc = "fb_finally_ok" THEN TextReady ELSE "failed"
  /\ UNCHANGED <<caller, force, prio, official, idx, tracks, files, calls, ret, capsDir,
                 text, used>>
  /\ ChainFrame

\* ------------------------------------------------------------------------
\* The summarisation of a text: summarize_long_text and its helpers
\* (src/summarizer.py), summarize_large and the stages of run_pipeline
\* (src/pipeline_plus.py). A request is one call of the text-generation
\* service (one generate_content / chat.completions.create / _gemini call).
\* ------------------------------------------------------------------------
\* what the service can answer with
Replies == {<<"x">>, <<SP, "y">>}

Request(kind, i, n, body) == [kind |-> kind, i |-> i, n |-> n, body |-> body]

NoOutcome == [kind |-> "none", error |-> "", value |-> <<>>]
Failed(err, value) == [kind |-> "raised", error |-> err, value |-> value]
Done(value) == [kind |-> "returned", error |-> "", value |-> value]

\* the answer to a request: a text, or an error
Answer(ok, r) == [ok |-> ok, text |-> IF ok THEN r ELSE <<>>]

\* s[:n]
Prefix(s, n) == SubSeq(s, 1, IF Len(s) < n THEN Len(s) ELSE n)

SummFrame == UNCHANGED <<gemVars, chunkVars, vttVars, urlVars, plainVars>>

SummIdle ==
  /\ spc = "idle" /\ sfun = "none" /\ schunks = <<>> /\ partials = <<>>
  /\ reqs = <<>> /\ answers = <<>> /\ sout = NoOutcome

\* summarize_long_text(text, provider, lang)
SummarizeLongText ==
  /\ pc = "summ"
  /\ caller = "server"
  /\ spc = "idle"
  /\ \E provider \in {"gemini", "openai"} :
       LET cks == ChunkTextSummarizer(text, 6000)
       IN /\ schunks' = cks
          /\ spc' = IF Len(cks) = 1 THEN "single" ELSE "partial"
          /\ sfun' = IF provider = "openai"
                     THEN (IF Len(cks) = 1 THEN "single_openai" ELSE "chunks_openai")
                     ELSE (IF Len(cks) = 1 THEN "single_gemini" ELSE "chunks_gemini")
  /\ UNCHANGED <<partials, reqs, answers, sout>>
  /\ UNCHANGED chainVars
  /\ SummFrame

\* _summarize_with_gemini / _summarize_with_openai: the key, then one request
\* with the whole text
SingleRequest ==
  /\ spc = "single"
  /\ \E hasKey \in BOOLEAN :
       IF ~hasKey
       THEN /\ spc' = "raised"
            /\ sout' = Failed("RuntimeError", <<>>)
            /\ reqs' = reqs
            /\ answers' = answers
       ELSE /\ reqs' = Append(reqs, Request("single", 0, 0, text))
            /\ \E ok \in BOOLEAN, r \in Replies :
                 /\ answers' = Append(answers, Answer(ok, r))
                 /\ IF ok
                    THEN spc' = "returned" /\ sout' = Done(<<Strip(r)>>)
                    ELSE spc' = "raised" /\ sout' = Failed("RequestError", <<>>)
  /\ UNCHANGED <<sfun, schunks, partials>>
  /\ UNCHANGED chainVars
  /\ SummFrame

\* the loop index if enumerate counted from 0
LoopIndexFromZero(done) == done

\* for i, ck in enumerate(chunks, 1): the index of the pass after done passes
LoopIndex(done) == done + 1

\* a partial summary as it is kept: the stripped answer; summarize_large puts
\* a numbered heading line before it
PartialOf(i, r) ==
  IF sfun \in {"summarize_large", "run_pipeline"}
  THEN <<"[", ToString(i), "]", NL>> \o Strip(r)
  ELSE Strip(r)

\* the list if a partial summary were put in front of those before it
KeepPartialInFront(ps, p) == <<p>> \o ps

\* partials.append(...) / parts.append(...)
KeepPartial(ps, p) == Append(ps, p)

\* the i/len(chunks) of the prompt of a chunk; the prompt of
\* src/app/summarizer.py carries no number
ChunkLabel(i) == IF sfun = "app_summarizer" THEN 0 ELSE i

\* where the loop would be if the exception of a request were swallowed
GoesOnAfterFailure(stage) == stage

\* the exception of a request inside the loop: nothing catches it, it ends
\* the function
EndsOnFailure(stage) == "raised"

\* one pass of the loop over the chunks: one request for the next chunk
PartialRequest ==
  /\ spc = "partial"
  /\ Len(partials) < Len(schunks)
  /\ LET i == LoopIndex(Len(partials))
         ck == schunks[Len(partials) + 1]
     IN /\ reqs' = Append(reqs, Request("partial", ChunkLabel(i),
                                       ChunkLabel(Len(schunks)), ck))
        /\ \E ok \in BOOLEAN, r \in Replies :
             /\ answers' = Append(answers, Answer(ok, r))
             /\ IF ok
                THEN /\ partials' = KeepPartial(partials, PartialOf(i, r))
                     /\ UNCHANGED <<spc, sout>>
                ELSE /\ spc' = EndsOnFailure(spc)
                     /\ sout' = Failed("RequestError", sout.value)
                     /\ partials' = partials
  /\ UNCHANGED <<sfun, schunks>>
  /\ UNCHANGED chainVars
  /\ SummFrame

\* the fixed text of the final prompt of each function
FinalTemplate == "T"

\* the code fence FINAL_PROMPT of src/app/summarizer.py puts around the partials
Fence == "#"

\* the final prompt: the fixed text around "\n\n".join(partials)
FinalPrompt(fn, ps) ==
  LET merged == Join(ps, <<NL, NL>>)
  IN CASE fn \in {"chunks_gemini", "chunks_openai"} ->
            <<NL, FinalTemplate, NL>> \o merged \o <<NL>>
       [] fn \in {"summarize_large", "run_pipeline"} ->
            <<FinalTemplate, NL, NL>> \o merged
       [] fn = "app_summarizer" ->
            <<FinalTemplate, NL, Fence>> \o merged \o <<Fence>>

\* after the loop: the final request
MergeRequest ==
  /\ spc = "partial"
  /\ Len(partials) = Len(schunks)
  /\ reqs' = Append(reqs, Request("merge", 0, 0, FinalPrompt(sfun, partials)))
  /\ \E ok \in BOOLEAN, r \in Replies :
       /\ answers' = Append(answers, Answer(ok, r))
       /\ IF ok
          THEN /\ sout' = [sout EXCEPT !.value = Append(sout.value, Strip(r)),
                                       !.kind = IF sfun = "run_pipeline" THEN "none"
                                                ELSE "returned"]
               /\ spc' = IF sfun = "run_pipeline" THEN "solutions" ELSE "returned"
          ELSE /\ spc' = "raised"
               /\ sout' = Failed("RequestError", sout.value)
  /\ UNCHANGED <<sfun, schunks, partials>>
  /\ UNCHANGED chainVars
  /\ SummFrame

\* run_pipeline, stage 3: brief = summarize_brief(text)
RunPipelineSummarize ==
  /\ pc = "summ"
  /\ caller = "run_pipeline"
  /\ spc = "idle"
  /\ spc' = "brief"
  /\ sfun' = "run_pipeline"
  /\ UNCHANGED <<schunks, partials, reqs, answers, sout>>
  /\ UNCHANGED chainVars
  /\ SummFrame

\* the stage that follows a stage of run_pipeline
NextStage(stage) ==
  CASE stage = "brief" -> "detailed"
    [] stage = "detailed" -> "solutions"
    [] stage = "solutions" -> "extras"
    [] stage = "extras" -> "returned"

\* detailed or brief
DetailedOrBrief(results) == IF results[2] # <<>> THEN results[2] ELSE results[1]

\* summarize_brief, summarize_detailed, propose_solutions, extras: one request
\* each; after the brief summary a text of more than 10000 characters goes to
\* summarize_large instead of summarize_detailed
PipelineRequest ==
  /\ spc \in {"brief", "detailed", "solutions", "extras"}
  /\ LET body == IF spc \in {"brief", "detailed"} THEN Prefix(text, 18000)
                 ELSE Prefix(DetailedOrBrief(sout.value), 18000)
     IN reqs' = Append(reqs, Request(spc, 0, 0, body))
  /\ \E ok \in BOOLEAN, r \in Replies :
     /\ answers' = Append(answers, Answer(ok, r))
     /\ IF ~ok
       THEN /\ spc' = "raised"
            /\ sout' = Failed("RequestError", sout.value)
            /\ schunks' = schunks
       ELSE IF spc = "brief" /\ Len(text) > 10000
       THEN /\ spc' = "partial"
            /\ schunks' = ChunkTextPipelinePlus(text, 8000)
            /\ sout' = [sout EXCEPT !.value = Append(sout.value, Strip(r))]
       ELSE /\ spc' = NextStage(spc)
            /\ schunks' = schunks
            /\ sout' = [sout EXCEPT !.value = Append(sout.value, Strip(r)),
                                    !.kind = IF spc = "extras" THEN "returned" ELSE "none"]
  /\ UNCHANGED <<sfun, partials>>
  /\ UNCHANGED chainVars
  /\ SummFrame

\* the caller answers: the summary, or the error (HTTP 500 in src/server.py)
Respond ==
  /\ pc = "summ"
  /\ spc \in {"returned", "raised"}
  /\ pc' = IF spc = "returned" THEN "done" ELSE "failed"
  /\ UNCHANGED <<audioDir, caller, force, prio, official, idx, tracks, files, calls, ret,
                 capsDir, text, used>>
  /\ UNCHANGED summVars
  /\ SummFrame

\* the chunks a multi-chunk summarisation is called with
SummChunks == {<<"a">>, <<"b", NL, "c">>}

ChunkLists == SeqsUpTo(SummChunks, MaxChunks)

\* a direct call of _summarize_chunks_with_gemini(chunks)
CallSummarizeChunksWithGemini ==
  /\ pc = "idle"
  /\ spc = "idle"
  /\ spc' = "partial"
  /\ sfun' = "chunks_gemini"
  /\ UNCHANGED <<schunks, partials, reqs, answers, sout>>
  /\ UNCHANGED chainVars
  /\ SummFrame

\* a direct call of _summarize_chunks_with_openai(chunks)
CallSummarizeChunksWithOpenai ==
  /\ pc = "idle"
  /\ spc = "idle"
  /\ spc' = "partial"
  /\ sfun' = "chunks_openai"
  /\ UNCHANGED <<schunks, partials, reqs, answers, sout>>
  /\ UNCHANGED chainVars
  /\ SummFrame

\* a direct call of summarize_long_text(api_key, full_text) of
\* src/app/summarizer.py; schunks is chunk_text(full_text, max_chars=8000)
CallSummarizeLongTextApp ==
  /\ pc = "idle"
  /\ spc = "idle"
  /\ spc' = "partial"
  /\ sfun' = "app_summarizer"
  /\ UNCHANGED <<schunks, partials, reqs, answers, sout>>
  /\ UNCHANGED chainVars
  /\ SummFrame

\* a direct call of summarize_large(text); schunks is chunk_text(text, 8000)
CallSummarizeLarge ==
  /\ pc = "idle"
  /\ spc = "idle"
  /\ spc' = "partial"
  /\ sfun' = "summarize_large"
  /\ UNCHANGED <<schunks, partials, reqs, answers, sout>>
  /\ UNCHANGED chainVars
  /\ SummFrame

\* ------------------------------------------------------------------------
\* extract_video_id (src/app/yt_utils.py, src/transcript_pipeline.py,
\* src/pipeline_plus.py). A URL is a sequence of one-character strings.
\* ------------------------------------------------------------------------
Lower == {"a", "b", "c", "d", "e", "f", "g", "h", "i", "j", "k", "l", "m", "n", "o", "p", "q", "r", "s", "t", "u", "v", "w", "x", "y", "z"}
Upper == {"A", "B", "C", "D", "E", "F", "G", "H", "I", "J", "K", "L", "M", "N", "O", "P", "Q", "R", "S", "T", "U", "V", "W", "X", "Y", "Z"}
Digits == {"0", "1", "2", "3", "4", "5", "6", "7", "8", "9"}

\* [A-Za-z0-9_-]; [\w-] is the same class on ASCII text
IdChars == Lower \cup Upper \cup Digits \cup {"_", "-"}

\* {11}: the length of an identifier
IdLen == 11

StartsWithAt(s, p, pre) ==
  p + Len(pre) - 1 <= Len(s) /\ SubSeq(s, p, p + Len(pre) - 1) = pre

IdAt(s, p) == p + IdLen - 1 <= Len(s) /\ \A k \in p..(p + IdLen - 1) : s[k] \in IdChars

\* the pattern (?:pre1|pre2|...)([class]{11}) matches at position p with alternative i
MatchesAt(s, p, prefixes, i) ==
  StartsWithAt(s, p, prefixes[i]) /\ IdAt(s, p + Len(prefixes[i]))

\* re.search of that pattern: the leftmost match, the first alternative at it;
\* [found, id]: whether there is a match, and its group(1)
SearchId(s, prefixes) ==
  LET hits == {p \in 1..Len(s) : \E i \in 1..Len(prefixes) : MatchesAt(s, p, prefixes, i)}
  IN IF hits = {} THEN [found |-> FALSE, id |-> <<>>]
     ELSE LET p == CHOOSE q \in hits : \A h \in hits : q <= h
              i == CHOOSE j \in 1..Len(prefixes) :
                     /\ MatchesAt(s, p, prefixes, j)
                     /\ \A h \in 1..(j - 1) : ~MatchesAt(s, p, prefixes, h)
              from == p + Len(prefixes[i])
          IN [found |-> TRUE, id |-> SubSeq(s, from, from + IdLen - 1)]

Value(v) == [kind |-> "value", value |-> v]
NoValue == [kind |-> "none", value |-> <<>>]
ValueError == [kind |-> "raised", value |-> <<>>]

\* the alternatives of the pattern of src/app/yt_utils.py and src/transcript_pipeline.py
AppPrefixes == <<<<"v", "=">>, <<"b", "e", "/">>, <<"s", "h", "o", "r", "t", "s", "/">>>>

\* m = re.search(...); return m.group(1) if m else url
extract_video_id(u) ==
  LET m == SearchId(u, AppPrefixes)
  IN IF m.found THEN Value(m.id) ELSE Value(u)

\* the position of the first character of s that is in set, or Len(s) + 1
FirstIndex(s, set) ==
  IF \E k \in 1..Len(s) : s[k] \in set
  THEN CHOOSE k \in 1..Len(s) : s[k] \in set /\ \A h \in 1..(k - 1) : s[h] \notin set
  ELSE Len(s) + 1

From(s, k) == SubSeq(s, k, Len(s))

\* urllib.parse.urlparse: scheme, netloc, path, query (fragment dropped);
\* raises ValueError for a netloc with one square bracket only
urlparse(u) ==
  LET c == FirstIndex(u, {":"})
      hasScheme == /\ 1 < c /\ c <= Len(u)
                   /\ u[1] \in Lower \cup Upper
                   /\ \A k \in 1..(c - 1) :
                        u[k] \in Lower \cup Upper \cup Digits \cup {"+", "-", "."}
      rest == IF hasScheme THEN From(u, c + 1) ELSE u
      hasNetloc == Len(rest) >= 2 /\ rest[1] = "/" /\ rest[2] = "/"
      tail == IF hasNetloc THEN From(rest, 3) ELSE rest
      n == IF hasNetloc THEN FirstIndex(tail, {"/", "?", "#"}) ELSE 1
      netloc == SubSeq(tail, 1, n - 1)
      noFrag == SubSeq(From(tail, n), 1, FirstIndex(From(tail, n), {"#"}) - 1)
      q == FirstIndex(noFrag, {"?"})
      has(ch) == \E k \in 1..Len(netloc) : netloc[k] = ch
  IN [raised |-> has("[") # has("]"),
      netloc |-> netloc,
      path |-> SubSeq(noFrag, 1, q - 1),
      query |-> From(noFrag, q + 1)]

\* unquote of a query component: "+" is a space (no "%" escapes in this alphabet)
RECURSIVE Unquote(_)
Unquote(s) ==
  IF s = <<>> THEN <<>>
  ELSE <<IF Head(s) = "+" THEN SP ELSE Head(s)>> \o Unquote(Tail(s))

\* parse_qs(query)["v"]: the values of the fields named v, blank values dropped
RECURSIVE ValuesOfV(_)
ValuesOfV(fields) ==
  IF fields = <<>> THEN <<>>
  ELSE LET f == Head(fields)
           e == FirstIndex(f, {"="})
       IN (IF e <= Len(f) /\ Unquote(SubSeq(f, 1, e - 1)) = <<"v">> /\ From(f, e + 1) # <<>>
           THEN <<Unquote(From(f, e + 1))>> ELSE <<>>)
          \o ValuesOfV(Tail(fields))

parse_qs_v(query) == ValuesOfV(SplitChar(query, "&"))

\* str.strip("/")
RECURSIVE StripSlashes(_)
StripSlashes(s) ==
  IF s # <<>> /\ Head(s) = "/" THEN StripSlashes(Tail(s))
  ELSE IF s # <<>> /\ s[Len(s)] = "/" THEN StripSlashes(SubSeq(s, 1, Len(s) - 1))
  ELSE s

EndsWith(s, suf) == Len(s) >= Len(suf) /\ From(s, Len(s) - Len(suf) + 1) = suf

YoutuBe == <<"y", "o", "u", "t", "u", ".", "b", "e">>
YoutubeCom == <<"y", "o", "u", "t", "u", "b", "e", ".", "c", "o", "m">>

\* the alternatives of the pattern of src/pipeline_plus.py
PlusPrefixes == <<<<"v", "=">>, <<"/", "e", "m", "b", "e", "d", "/">>, YoutuBe \o <<"/">> >>

\* extract_video_id of src/pipeline_plus.py
ExtractVideoIdPipelinePlus(u) ==
  LET parsed == urlparse(u)
      m == SearchId(u, PlusPrefixes)
  IN IF parsed.raised THEN ValueError
     ELSE IF parsed.netloc = YoutuBe THEN Value(StripSlashes(parsed.path))
     ELSE IF EndsWith(parsed.netloc, YoutubeCom) /\ parse_qs_v(parsed.query) # <<>>
     THEN Value(parse_qs_v(parsed.query)[1])
     ELSE IF m.found THEN Value(m.id) ELSE NoValue

\* the URLs extract_video_id is applied to
Https == <<"h", "t", "t", "p", "s", ":", "/", "/">>
Www == <<"w", "w", "w", ".">>

VideoIds == {<<"d", "Q", "w", "4", "w", "9", "W", "g", "X", "c", "Q">>, <<"a", "-", "b", "_", "c", "0", "1", "2", "3", "4", "5">>}

Hosts == {<<>>, Https, Https \o Www, Https \o <<"m", ".">>}

UrlShapes == {"short", "watch", "embed", "shorts"}

\* the URL of a shape for the identifier id, with or without a further parameter
ShapeUrl(host, shape, id, more) ==
  CASE shape = "short" ->
         (IF host = <<>> \/ host = Https THEN host ELSE Https) \o YoutuBe \o <<"/">> \o id
           \o (IF more THEN <<"?", "t", "=", "1">> ELSE <<>>)
    [] shape = "watch" ->
         host \o YoutubeCom \o <<"/", "w", "a", "t", "c", "h", "?", "v", "=">> \o id
           \o (IF more THEN <<"&", "t", "=", "1">> ELSE <<>>)
    [] shape = "embed" ->
         host \o YoutubeCom \o <<"/", "e", "m", "b", "e", "d", "/">> \o id
           \o (IF more THEN <<"?", "s", "t", "a", "r", "t", "=", "1">> ELSE <<>>)
    [] shape = "shorts" ->
         host \o YoutubeCom \o <<"/", "s", "h", "o", "r", "t", "s", "/">> \o id
           \o (IF more THEN <<"?", "f", "e", "a", "t", "u", "r", "e", "=", "s", "h", "a", "r", "e">> ELSE <<>>)

ShapedUrls ==
  {ShapeUrl(h, sh, id, more) : h \in Hosts, sh \in UrlShapes, id \in VideoIds, more \in BOOLEAN}

\* strings that carry no identifier, or not where a resolver looks for it
OtherUrls ==
  { <<>>,
    <<"h", "e", "l", "l", "o">>,
    Https \o <<"e", "x", "a", "m", "p", "l", "e", ".", "c", "o", "m", "/">>,
    Https \o <<"[">>,
    Https \o Www \o YoutubeCom \o <<"/", "w", "a", "t", "c", "h", "?", "v", "=", "a", "b", "c">>,
    Https \o Www \o YoutubeCom \o <<"/", "w", "a", "t", "c", "h", "?", "t", "=", "1", "&", "v", "=">> \o <<"d", "Q", "w", "4", "w", "9", "W", "g", "X", "c", "Q">>,
    Https \o Www \o YoutubeCom \o <<"/", "p", "l", "a", "y", "l", "i", "s", "t", "?", "l", "i", "s", "t", "=", "P", "L", "1">>,
    Https \o YoutuBe \o <<"/">> }

Urls == ShapedUrls \cup OtherUrls

UrlFrame == UNCHANGED <<gemVars, chunkVars, vttVars, chainVars, summVars, plainVars>>

UrlIdle == url = <<>> /\ ufun = "none" /\ uret = NoValue

\* extract_video_id(url) of src/app/yt_utils.py
CallExtractVideoIdApp ==
  /\ ufun = "none"
  /\ ufun' = "app"
  /\ uret' = extract_video_id(url)
  /\ url' = url
  /\ UrlFrame

\* extract_video_id(url) of src/transcript_pipeline.py: the same pattern
CallExtractVideoIdTp ==
  /\ ufun = "none"
  /\ ufun' = "tp"
  /\ uret' = extract_video_id(url)
  /\ url' = url
  /\ UrlFrame

\* extract_video_id(youtube_url) of src/pipeline_plus.py
CallExtractVideoIdPipelinePlus ==
  /\ ufun = "none"
  /\ ufun' = "pipeline_plus"
  /\ uret' = ExtractVideoIdPipelinePlus(url)
  /\ url' = url
  /\ UrlFrame

\* ------------------------------------------------------------------------
\* The flattening of segments to plain text
\* ------------------------------------------------------------------------
\* a segment: without a text, or with a text that is empty, blank, plain or padded
Segments ==
  {[start |-> 0]}
    \cup [start : {0}, text : {<<>>, <<SP>>, <<"a">>, <<SP, "b", SP>>}]

PlainFrame == UNCHANGED <<gemVars, chunkVars, vttVars, chainVars, summVars, urlVars>>

PlainIdle == psegs = <<>> /\ pfun = "none" /\ pout = <<>>

\* transcript_to_plaintext(trans) (the same line in both files)
CallTranscriptToPlaintext ==
  /\ pfun = "none"
  /\ pfun' = "transcript"
  /\ pout' = transcript_to_plaintext(psegs)
  /\ psegs' = psegs
  /\ PlainFrame

\* whisper_to_plaintext(segments) of src/app/yt_utils.py
CallWhisperToPlaintextApp ==
  /\ pfun = "none"
  /\ pfun' = "whisper_app"
  /\ pout' = transcript_to_plaintext(psegs)
  /\ psegs' = psegs
  /\ PlainFrame

\* whisper_to_plaintext(segments) of src/transcript_pipeline.py
CallWhisperToPlaintextTp ==
  /\ pfun = "none"
  /\ pfun' = "whisper_tp"
  /\ pout' = WhisperToPlaintextTp(psegs)
  /\ psegs' = psegs
  /\ PlainFrame

\* ------------------------------------------------------------------------
\* Specifications
\* ------------------------------------------------------------------------
\* one request through a caller and the transcript resolution chain
Init ==
  /\ caller \in {"server", "app_main", "run_pipeline"}
  /\ force \in BOOLEAN
  /\ caller # "server" => ~force
  /\ prio \in SeqsUpTo(Langs, MaxPrio)
  /\ official \in [Langs -> ApiOutcomes]
  /\ caller = "run_pipeline" => prio = <<>> /\ official = [l \in Langs |-> "raise"]
  /\ pc = "start" /\ idx = 0 /\ tracks = <<>> /\ files = <<>> /\ calls = <<>>
  /\ ret = Pending /\ capsDir = "none" /\ audioDir = "none"
  /\ text = <<>> /\ used = "none"
  /\ GemIdle /\ ChunkIdle /\ VttIdle /\ SummIdle /\ UrlIdle /\ PlainIdle

\* the texts of this model are shorter than one chunk, so the loop over the
\* chunks has no pass here: SpecSumm runs it
Next ==
  \/ CallFetch \/ SkipFetch
  \/ GetTranscript \/ ListTranscripts \/ AutoTrack
  \/ YtdlpStart \/ YtdlpDownload \/ YtdlpParse
  \/ RunPipelineFetch
  \/ AfterFetch \/ DownloadAudio \/ WhisperTranscribe \/ AudioFinally
  \/ SummarizeLongText \/ SingleRequest \/ MergeRequest
  \/ RunPipelineSummarize \/ PipelineRequest \/ Respond

Spec == Init /\ [][Next]_vars

\* one call of _gemini
InitGemini == GemIdle /\ ChunkIdle /\ VttIdle /\ ChainIdle /\ SummIdle /\ UrlIdle /\ PlainIdle

NextGemini == GeminiCall \/ GeminiPost \/ GeminiSleep \/ GeminiExhausted

SpecGemini == InitGemini /\ [][NextGemini]_vars

\* one call of a chunking function on a text
InitChunk ==
  /\ ctext \in Texts
  /\ cmax \in 1..MaxChunkChars
  /\ cfun = "none" /\ chunks = <<>>
  /\ GemIdle /\ VttIdle /\ ChainIdle /\ SummIdle /\ UrlIdle /\ PlainIdle

NextChunk == CallChunkTextSummarizer \/ CallChunkTextPipelinePlus

SpecChunk == InitChunk /\ [][NextChunk]_vars

\* one call of a subtitle parser on a file
InitVtt ==
  /\ vlines \in SeqsUpTo(VttLines, MaxVttLines)
  /\ vparser = "none" /\ vitems = <<>>
  /\ GemIdle /\ ChunkIdle /\ ChainIdle /\ SummIdle /\ UrlIdle /\ PlainIdle

NextVtt == CallParseVtt \/ CallParseVttInline

SpecVtt == InitVtt /\ [][NextVtt]_vars

\* the lines of the files of SpecCaptions: every kind of line, the cues all
\* with the same end time
CaptionLines ==
  {l \in VttLines : l.k = "range" => l.e = [h |-> 0, m |-> 1, ms |-> 3000]}

\* the caption sources alone: one call of fetch_transcript_if_available, or
\* one call of a subtitle parser on a file
InitCaptions ==
  \/ Init /\ ~force /\ caller # "run_pipeline"
  \/ /\ vlines \in SeqsUpTo(CaptionLines, MaxVttLines)
     /\ vparser = "none" /\ vitems = <<>>
     /\ GemIdle /\ ChunkIdle /\ ChainIdle /\ SummIdle /\ UrlIdle /\ PlainIdle

NextCaptions ==
  \/ CallFetch \/ GetTranscript \/ ListTranscripts \/ AutoTrack
  \/ YtdlpStart \/ YtdlpDownload \/ YtdlpParse
  \/ CallParseVtt \/ CallParseVttInline

SpecCaptions == InitCaptions /\ [][NextCaptions]_vars

\* one multi-chunk summarisation of a chunk list
InitSumm ==
  /\ schunks \in ChunkLists
  /\ spc = "idle" /\ sfun = "none" /\ partials = <<>> /\ reqs = <<>> /\ answers = <<>>
  /\ sout = NoOutcome
  /\ GemIdle /\ ChunkIdle /\ VttIdle /\ ChainIdle /\ UrlIdle /\ PlainIdle

NextSumm ==
  \/ CallSummarizeChunksWithGemini \/ CallSummarizeChunksWithOpenai \/ CallSummarizeLarge
  \/ CallSummarizeLongTextApp
  \/ PartialRequest \/ MergeRequest

SpecSumm == InitSumm /\ [][NextSumm]_vars

\* one call of an extract_video_id on a string
InitUrl ==
  /\ url \in Urls
  /\ ufun = "none" /\ uret = NoValue
  /\ GemIdle /\ ChunkIdle /\ VttIdle /\ ChainIdle /\ SummIdle /\ PlainIdle

NextUrl ==
  CallExtractVideoIdApp \/ CallExtractVideoIdTp \/ CallExtractVideoIdPipelinePlus

SpecUrl == InitUrl /\ [][NextUrl]_vars

\* one call of a flattening function on a list of segments
InitPlain ==
  /\ psegs \in SeqsUpTo(Segments, MaxSegs)
  /\ pfun = "none" /\ pout = <<>>
  /\ GemIdle /\ ChunkIdle /\ VttIdle /\ ChainIdle /\ SummIdle /\ UrlIdle

NextPlain ==
  CallTranscriptToPlaintext \/ CallWhisperToPlaintextApp \/ CallWhisperToPlaintextTp

SpecPlain == InitPlain /\ [][NextPlain]_vars

\* ------------------------------------------------------------------------
\* Properties of the transcript resolution chain
\* ------------------------------------------------------------------------
Returned_ == ret.kind # "pending"

Invoked(op) == \E k \in 1..Len(calls) : calls[k].op = op

\* the official-caption lookup of a language answers a non-empty list
OfficialHit(code) == official[code] \in {"segs", "blank"}

HasOfficialHit == \E k \in 1..Len(EffPrio) : OfficialHit(EffPrio[k])

FirstOfficialHit ==
  CHOOSE k \in 1..Len(EffPrio) :
    OfficialHit(EffPrio[k]) /\ \A h \in 1..(k - 1) : ~OfficialHit(EffPrio[h])

\* a transcript that came from the caption API ({text, start, duration} segments)
IsApiTranscript(t) == t # <<>> /\ "duration" \in DOMAIN t[1]

\* C1: when the official-caption lookup answers a non-empty result for some
\* language of the priority list, fetch_transcript_if_available returns the
\* result of the earliest such language, and neither the enumeration of the
\* caption tracks nor a track fetch nor fetch_captions_via_ytdlp is ever invoked.
C1_OfficialCaptionWins ==
  (~force /\ HasOfficialHit) =>
    /\ ~Invoked("list_transcripts")
    /\ ~Invoked("fetch")
    /\ ~Invoked("fetch_captions_via_ytdlp")
    /\ Returned_ =>
         ret = RetValue(ApiSegs(official[EffPrio[FirstOfficialHit]], "official",
                                EffPrio[FirstOfficialHit]))

\* the first language raised, the second answered, and the second's result came back
C1_Witness ==
  /\ pc = "returned"
  /\ Len(EffPrio) = 2
  /\ official[EffPrio[1]] = "raise"
  /\ official[EffPrio[2]] = "segs"
  /\ ret = RetValue(ApiSegs("segs", "official", EffPrio[2]))

\* C2: whatever fails in strategies 1 and 2, once fetch_transcript_if_available
\* has returned without a result of strategy 1 or 2, fetch_captions_via_ytdlp
\* has been invoked.
C2_DownloaderStillTried ==
  (Returned_ /\ ~(ret.kind = "value" /\ IsApiTranscript(ret.value)))
    => Invoked("fetch_captions_via_ytdlp")

GeminiEnded == gpc \in {"returned", "raised"}

AllTransient ==
  /\ responses # <<>>
  /\ \A k \in 1..Len(responses) : responses[k] \in {429, 500, 502, 503, 504}

\* an auth/config or malformed-request class status: a 4xx other than 429
IsFatalStatus(a) == 400 <= a /\ a < 500 /\ a # 429

\* C4: when every response is transient, exactly 5 requests are sent and never
\* more, then the call fails with the last response's HTTP error; it never
\* returns a value.
C4_TransientExhaustsFiveAttempts ==
  /\ Len(sent) <= 5
  /\ AllTransient => gres.kind # "returned"
  /\ (AllTransient /\ GeminiEnded) =>
       /\ Len(sent) = 5
       /\ gres = Raised("HTTPError", responses[5])

\* five transient responses, the last a 503, and the call has failed
C4_Witness ==
  /\ GeminiEnded
  /\ AllTransient
  /\ Len(responses) = 5
  /\ responses[1] = 429
  /\ responses[5] = 503

\* C5: a response with a fatal status ends the call at once with that error:
\* it is the last response, no request follows it and no sleep follows it (the
\* sleeps are those of the transient failures before it).
C5_FatalStatusFailsImmediately ==
  \A k \in 1..Len(responses) :
    IsFatalStatus(responses[k]) =>
      /\ k = Len(responses)
      /\ Len(sent) = k
      /\ Len(slept) = k - 1
      /\ gpc = "raised"
      /\ gres = Raised("HTTPError", responses[k])

\* two transient failures, then a 401
C5_Witness ==
  /\ Len(responses) = 3
  /\ responses[1] = 500
  /\ responses[2] = 429
  /\ responses[3] = 401
  /\ gpc = "raised"

\* C6 as stated: the delay slept after a transient failure is twice the delay
\* slept after the transient failure before it.
C6_DelayDoubles ==
  \A k \in 1..(Len(slept) - 1) : slept[k + 1] = 2 * slept[k]

\* C6 as amended: the delay grows by the factor 1.5 per attempt: the first
\* delay is 1 second and each later one is 3/2 of the one before.
C6_DelayGrowsByHalf ==
  /\ slept # <<>> => slept[1] = DelayUnit
  /\ \A k \in 1..(Len(slept) - 1) : 2 * slept[k + 1] = 3 * slept[k]

\* a call that has slept after each of its five attempts
C6_Witness == Len(slept) = 5 /\ slept[5] > slept[4]

\* ------------------------------------------------------------------------
\* Properties of the chunking functions
\* ------------------------------------------------------------------------
\* the lines of the text and the sentences of each line (the pieces between
\* ". " delimiters, each but the last with the period that ends it), as they
\* stand in the text
UnitsOfText(txt) ==
  LET lines == SplitChar(txt, NL)
  IN UNION { LET sents == SplitDotSpace(lines[i])
             IN {lines[i]}
                \cup {sents[j] : j \in 1..Len(sents)}
                \cup {sents[j] \o <<DOT>> : j \in 1..(Len(sents) - 1)}
           : i \in 1..Len(lines) }

\* chunk c holds one single unit of the text that is itself longer than max
\* (trimmed, with or without a closing period)
IsOversizeUnit(c, txt, max) ==
  \E u \in UnitsOfText(txt) :
    Len(u) > max /\ (c = Strip(u) \/ c = Strip(u \o <<DOT>>))

\* C7: every chunk is at most max_chars long, except a chunk that is one single
\* line or sentence of the text which is itself longer than max_chars.
C7_ChunkWithinBound ==
  cfun # "none" =>
    \A i \in 1..Len(chunks) :
      Len(chunks[i]) <= cmax \/ IsOversizeUnit(chunks[i], ctext, cmax)

\* C8: the chunks of _chunk_text, concatenated in order, are the text: with the
\* newlines and spaces left out on both sides, the same characters in the same
\* order.
C8_ChunksReproduceText ==
  cfun = "summarizer" =>
    Without(Concat(chunks), {NL, SP}) = Without(ctext, {NL, SP})

\* ------------------------------------------------------------------------
\* Properties of parse_vtt
\* ------------------------------------------------------------------------
IsTextLine(line) == line.k = "text" /\ Strip(line.raw) # <<>>

\* the timestamp of a range line in milliseconds
StampMillis(fmt, t) ==
  IF fmt = "hms" THEN ((t.h * 60 + t.m) * 60) * 1000 + t.ms
  ELSE (t.m * 60) * 1000 + t.ms

\* the input is made of well-formed cues: a range line whose end is not before
\* its start, directly followed by one or more non-blank text lines; between
\* cues only empty lines; before the first cue at most a header line and empty
\* lines. mode: "head", "range" (a range line was the last line), "text", "gap"
RECURSIVE WellFormedFrom(_, _, _)
WellFormedFrom(lines, mode, first) ==
  IF lines = <<>> THEN mode # "range"
  ELSE LET l == Head(lines)
       IN CASE l.k = "webvtt" -> first /\ WellFormedFrom(Tail(lines), "head", FALSE)
            [] l.k = "blank" ->
                 /\ mode # "range"
                 /\ WellFormedFrom(Tail(lines), IF mode = "head" THEN "head" ELSE "gap",
                                   FALSE)
            [] l.k = "range" ->
                 /\ mode # "range"
                 /\ StampMillis(l.fmt, l.e) >= StampMillis(l.fmt, l.s)
                 /\ WellFormedFrom(Tail(lines), "range", FALSE)
            [] OTHER ->
                 /\ IsTextLine(l)
                 /\ mode \in {"range", "text"}
                 /\ WellFormedFrom(Tail(lines), "text", FALSE)

WellFormedCues(lines) == WellFormedFrom(lines, "head", TRUE)

\* the trimmed text lines at the head of lines
RECURSIVE LeadingTexts(_)
LeadingTexts(lines) ==
  IF lines # <<>> /\ Head(lines).k = "text"
  THEN <<Strip(Head(lines).raw)>> \o LeadingTexts(Tail(lines))
  ELSE <<>>

\* one segment per cue, in file order
RECURSIVE CueSegments(_)
CueSegments(lines) ==
  IF lines = <<>> THEN <<>>
  ELSE (IF Head(lines).k = "range"
        THEN <<[start |-> StampMillis(Head(lines).fmt, Head(lines).s),
                end |-> StampMillis(Head(lines).fmt, Head(lines).e),
                text |-> Join(LeadingTexts(Tail(lines)), <<SP>>)]>>
        ELSE <<>>) \o CueSegments(Tail(lines))

IsCueStart(l) == l.k \in {"range", "open"}

\* as WellFormedFrom, with cues of either kind
RECURSIVE WellFormedOpenFrom(_, _, _)
WellFormedOpenFrom(lines, mode, first) ==
  IF lines = <<>> THEN mode # "range"
  ELSE LET l == Head(lines)
       IN CASE l.k = "webvtt" -> first /\ WellFormedOpenFrom(Tail(lines), "head", FALSE)
            [] l.k = "blank" ->
                 /\ mode # "range"
                 /\ WellFormedOpenFrom(Tail(lines),
                                       IF mode = "head" THEN "head" ELSE "gap", FALSE)
            [] IsCueStart(l) ->
                 /\ mode # "range"
                 /\ l.k = "range" => StampMillis(l.fmt, l.e) >= StampMillis(l.fmt, l.s)
                 /\ WellFormedOpenFrom(Tail(lines), "range", FALSE)
            [] OTHER ->
                 /\ IsTextLine(l)
                 /\ mode \in {"range", "text"}
                 /\ WellFormedOpenFrom(Tail(lines), "text", FALSE)

HasOpenCue(lines) == \E k \in 1..Len(lines) : lines[k].k = "open"

\* one segment per cue, a cue without end timestamp ending 2 seconds after its start
RECURSIVE CueSegmentsDefaultEnd(_)
CueSegmentsDefaultEnd(lines) ==
  IF lines = <<>> THEN <<>>
  ELSE (IF IsCueStart(Head(lines))
        THEN <<[start |-> StampMillis(Head(lines).fmt, Head(lines).s),
                end |-> IF Head(lines).k = "range"
                        THEN StampMillis(Head(lines).fmt, Head(lines).e)
                        ELSE StampMillis(Head(lines).fmt, Head(lines).s) + 2000,
                text |-> Join(LeadingTexts(Tail(lines)), <<SP>>)]>>
        ELSE <<>>) \o CueSegmentsDefaultEnd(Tail(lines))

\* the notation the parser of src/transcript_pipeline.py knows
AllHms(lines) == \A k \in 1..Len(lines) : IsCueStart(lines[k]) => lines[k].fmt = "hms"

\* C17: in a file of well-formed cues of which some lack their end timestamp,
\* each cue still gives its own segment, in file order, with its own text; a
\* cue without end timestamp ends 2.0 seconds after its start.
C17_OpenCueGetsDefaultEnd ==
  (/\ vparser # "none"
   /\ HasOpenCue(vlines)
   /\ WellFormedOpenFrom(vlines, "head", TRUE)
   /\ vparser = "tp" => AllHms(vlines))
    => vitems = CueSegmentsDefaultEnd(vlines)

HasCue(lines) == \E k \in 1..Len(lines) : lines[k].k = "range"

\* C18: a range line in either notation, H:MM:SS.mmm or MM:SS.mmm, is a cue
\* boundary for both parsers: in a file of well-formed cues each range line
\* closes the cue before it and opens a segment whose start and end are the
\* instants the line names, whichever the notation.
C18_BothNotationsAreCueBoundaries ==
  (vparser # "none" /\ WellFormedCues(vlines) /\ HasCue(vlines))
    => vitems = CueSegments(vlines)

\* ------------------------------------------------------------------------
\* Properties of the choice of the subtitle file
\* ------------------------------------------------------------------------
HasFileOf(fs, code) == \E k \in 1..Len(fs) : fs[k].lang = code

\* the language of the file to parse: the earliest language of the priority
\* list that has a file, else the language of the first file
ChosenLang(fs, codes) ==
  IF \E k \in 1..Len(codes) : HasFileOf(fs, codes[k])
  THEN codes[CHOOSE k \in 1..Len(codes) :
               HasFileOf(fs, codes[k]) /\ \A h \in 1..(k - 1) : ~HasFileOf(fs, codes[h])]
  ELSE fs[1].lang

\* C19: the file fetch_captions_via_ytdlp parses first is that of the earliest
\* language of the priority list for which a file was downloaded, and the
\* first file only when no language of the list has one.
C19_FileChosenByPriority ==
  [][(pc = "ytdlp_parse" /\ calls' # calls) =>
       calls'[Len(calls) + 1] = Call("parse_vtt", ChosenLang(files, EffPrio))]_vars

\* the same, for src/app/yt_utils.py alone
C19_AppFileChosenByPriority ==
  [][(pc = "ytdlp_parse" /\ calls' # calls /\ impl = "app") =>
       calls'[Len(calls) + 1] = Call("parse_vtt", ChosenLang(files, EffPrio))]_vars

\* ------------------------------------------------------------------------
\* Properties of the temporary directory of fetch_captions_via_ytdlp
\* ------------------------------------------------------------------------
\* C10: once fetch_captions_via_ytdlp has returned, on whatever path, the
\* temporary directory it created is deleted.
C10_CapsDirDeletedOnReturn ==
  pc \in {"returned", "fb_audio", "fb_whisper", "fb_finally_ok", "fb_finally_err",
         "summ", "done", "failed"} => capsDir # "exists"

\* ------------------------------------------------------------------------
\* Properties of the temporary directory of the audio fallback
\* ------------------------------------------------------------------------
RequestEnded == pc \in {"done", "failed"}

IsTooShort(t) == Len(t) < 10

SummarisationStarted == caller \in {"server", "run_pipeline"} /\ spc # "idle"

\* C12: when the text handed to the summarisation is shorter than the minimum
\* usable length, no text-generation request is ever issued and the pipeline
\* ends with the error InputTooShort.
C12_TooShortIsRejected ==
  (SummarisationStarted /\ IsTooShort(text)) =>
    /\ reqs = <<>>
    /\ spc # "returned"
    /\ spc = "raised" => sout.error = "InputTooShort"

IsMerge(k) == reqs[k].kind = "merge"

\* C13: for a chunk list of N >= 2 chunks the k-th request is the partial
\* request of chunk k, labelled k of N; a request is issued only when the
\* answers of all the requests before it are in; after the N partial requests
\* comes exactly one merge request, issued when all N partial summaries are
\* collected; a summarisation that returns has issued N + 1 requests.
C13_PartialsInOrderThenOneMerge ==
  (sfun \in {"chunks_gemini", "chunks_openai", "summarize_large"} /\ Len(schunks) >= 2) =>
    LET N == Len(schunks)
    IN /\ Len(reqs) <= N + 1
       /\ Len(reqs) <= Len(partials) + 1
       /\ \A k \in 1..Len(reqs) :
            IF k <= N THEN reqs[k] = Request("partial", k, N, schunks[k])
            ELSE IsMerge(k) /\ Len(partials) = N
       /\ spc = "returned" => Len(reqs) = N + 1 /\ IsMerge(N + 1)

\* summarize_large over three chunks has returned after four requests
C13_Witness ==
  /\ sfun = "summarize_large"
  /\ Len(schunks) = 3
  /\ spc = "returned"
  /\ Len(reqs) = 4
  /\ reqs[3].i = 3 /\ reqs[3].n = 3

\* ------------------------------------------------------------------------
\* Properties of extract_video_id
\* ------------------------------------------------------------------------
\* nowhere in u stand 11 identifier characters in a row: no resolver can find
\* an identifier in it
HasNoIdentifier(u) == \A p \in 1..Len(u) : ~IdAt(u, p)

\* C14: extract_video_id (all three implementations) never raises and never
\* returns None, and for a string in which no identifier can be found it
\* returns the string itself.
C14_NeverRaisesNeverNone ==
  ufun # "none" =>
    /\ uret.kind = "value"
    /\ HasNoIdentifier(url) => uret.value = url

\* C15: for a URL of one of the four shapes (youtu.be/X, watch?v=X, /embed/X,
\* /shorts/X) carrying the 11-character identifier X, extract_video_id of
\* src/app/yt_utils.py and of src/pipeline_plus.py returns exactly X.
C15_CommonShapesResolve ==
  ufun \in {"app", "pipeline_plus"} =>
    \A h \in Hosts, sh \in UrlShapes, id \in VideoIds, more \in BOOLEAN :
      url = ShapeUrl(h, sh, id, more) => uret = Value(id)

\* ------------------------------------------------------------------------
\* Properties of the flattening to plain text
\* ------------------------------------------------------------------------
\* the trimmed texts of the segments whose text is not empty after trimming
RECURSIVE TrimmedNonEmpty(_)
TrimmedNonEmpty(segs) ==
  IF segs = <<>> THEN <<>>
  ELSE (IF Strip(GetText(Head(segs))) # <<>> THEN <<Strip(GetText(Head(segs)))>> ELSE <<>>)
       \o TrimmedNonEmpty(Tail(segs))

\* C16: the plain text is the trimmed texts of the segments that have a text
\* which is non-empty after trimming, in input order, joined by a newline; it
\* has no empty line and no line with leading or trailing whitespace.
C16_PlaintextIsTrimmedNonEmptyLines ==
  pfun # "none" =>
    /\ pout = Join(TrimmedNonEmpty(psegs), <<NL>>)
    /\ pout # <<>> =>
         \A k \in 1..Len(SplitChar(pout, NL)) :
           LET line == SplitChar(pout, NL)[k]
           IN line # <<>> /\ Strip(line) = line

\* ------------------------------------------------------------------------
\* Properties of _gemini on a timeout
\* ------------------------------------------------------------------------
\* C20: a request of _gemini that times out is retried; the time-out ends
\* the call with an error only when it is that of the last attempt.
C20_TimeoutIsRetried ==
  (gpc = "raised" /\ responses # <<>> /\ responses[Len(responses)] = TimedOut)
    => Len(responses) = MaxAttempts

\* ------------------------------------------------------------------------
\* Properties of the final prompt of a multi-chunk summarisation
\* ------------------------------------------------------------------------
MultiChunkFunctions == {"chunks_gemini", "chunks_openai", "summarize_large", "app_summarizer"}

\* the partial summaries in the order of the chunks: that of chunk i is made
\* of the answer to the request for chunk i
SummariesByChunk ==
  [i \in 1..Len(schunks) |-> PartialOf(i, answers[i].text)]

\* C21: the final prompt is the fixed text of the function around the partial
\* summaries joined in ascending order of the chunk index: it depends on the
\* partial summaries alone, not on the chunks or on anything else of the run.
C21_MergePromptFromPartialsInOrder ==
  sfun \in MultiChunkFunctions =>
    \A k \in 1..Len(reqs) :
      IsMerge(k) =>
        /\ k = Len(schunks) + 1
        /\ reqs[k].body = FinalPrompt(sfun, SummariesByChunk)

\* a final prompt was built from the summaries of three chunks, and the
\* answers to the first and the last chunk differ
C21_Witness ==
  /\ sfun \in MultiChunkFunctions
  /\ Len(schunks) = 3
  /\ Len(reqs) = 4
  /\ IsMerge(4)
  /\ answers[1].text # answers[3].text

\* ------------------------------------------------------------------------
\* Properties of _gemini on a success after transient failures
\* ------------------------------------------------------------------------
IsSuccess(a) == a # TimedOut /\ ~IsTransient(a) /\ ~RaiseForStatus(a)

\* C22: when the responses before response k are all transient failures and
\* response k is a success, the call has returned the body of response k after
\* exactly k requests, each with the payload of the call, and response k is
\* the last: no request follows it.
C22_SuccessAfterTransientsReturns ==
  \A k \in 1..Len(responses) :
    (IsSuccess(responses[k]) /\ \A h \in 1..(k - 1) : IsTransient(responses[h])) =>
      /\ k <= MaxAttempts
      /\ k = Len(responses)
      /\ Len(sent) = k
      /\ \A h \in 1..k : sent[h] = payload
      /\ gpc = "returned"
      /\ gres = Returned(k)

\* four transient failures, then a success on the fifth and last attempt
C22_Witness ==
  /\ Len(responses) = 5
  /\ \A h \in 1..4 : IsTransient(responses[h])
  /\ IsSuccess(responses[5])
  /\ gpc = "returned"

\* C26: every sleep of the call is followed by another attempt: once the loop
\* is over the call has slept fewer times than it has sent requests, one time
\* fewer when it fails by exhaustion.
C26_NoSleepAfterLastAttempt ==
  (gpc \in {"exhausted", "raised", "returned"} /\ sent # <<>>) =>
    /\ Len(slept) < Len(sent)
    /\ Len(sent) = MaxAttempts /\ AllTransient => Len(slept) = Len(sent) - 1

\* ------------------------------------------------------------------------
\* Properties of the source tag of src/server.py
\* ------------------------------------------------------------------------
CaptionCalls == {"get_transcript", "list_transcripts", "fetch", "fetch_captions_via_ytdlp",
                 "parse_vtt"}

\* the text the caption chain yielded: that of the segments it returned, or
\* none
CaptionText == IF ret.kind = "value" THEN transcript_to_plaintext(ret.value) ELSE <<>>

\* the text is in the hands of summarize_long_text
TextPassedOn == caller = "server" /\ pc \in {"summ", "done"}

\* C23: in the handler of src/server.py the tag is "captions" exactly when the
\* text passed to summarize_long_text is that of fetch_transcript_if_available
\* and "whisper" exactly when it is that of the audio fallback; with
\* force_whisper the caption chain is never entered; without it download_audio
\* is invoked only after the caption chain yielded no non-empty text.
C23_TagNamesTheSourceOfTheText ==
  caller = "server" =>
    /\ TextPassedOn =>
         /\ used \in {"captions", "whisper"}
         /\ used = "captions" <=>
              (~Invoked("whisper_transcribe_local") /\ text = CaptionText /\ text # <<>>)
         /\ used = "whisper" <=> Invoked("whisper_transcribe_local")
    /\ force =>
         /\ \A op \in CaptionCalls : ~Invoked(op)
         /\ ret = Pending
    /\ (~force /\ Invoked("download_audio")) =>
         /\ ret.kind \in {"none", "value"}
         /\ CaptionText = <<>>

\* the caption chain returned segments without any text, the audio fallback
\* produced the text, and the tag says so
C23_Witness ==
  /\ TextPassedOn
  /\ ~force
  /\ ret.kind = "value"
  /\ used = "whisper"
  /\ text # <<>>

\* ------------------------------------------------------------------------
\* Properties of the segments the caption sources return
\* ------------------------------------------------------------------------
\* the lines a parser takes as the start of a cue
IsBoundary(parser, line) == line.k = "range" /\ (parser = "app" \/ line.fmt = "hms")

\* the lines a parser takes as text, and that have some
IsTextual(parser, line) ==
  /\ ~IsBoundary(parser, line)
  /\ line.k \notin {"blank", "webvtt"}
  /\ line.k = "text" => Strip(line.raw) # <<>>

BoundaryStart(line) == IF line.fmt = "hms" THEN to_sec_hms(line.s) ELSE to_sec_ms(line.s)

\* some line with text stands between the cue start at i and the next one
CueHasText(parser, lines, i) ==
  \E j \in (i + 1)..Len(lines) :
    /\ IsTextual(parser, lines[j])
    /\ \A h \in (i + 1)..j : ~IsBoundary(parser, lines[h])

\* the start times of the cues that have text, in the order of the file
RECURSIVE StartsOfCuesWithText(_, _, _)
StartsOfCuesWithText(parser, lines, i) ==
  IF i > Len(lines) THEN <<>>
  ELSE (IF IsBoundary(parser, lines[i]) /\ CueHasText(parser, lines, i)
        THEN <<BoundaryStart(lines[i])>> ELSE <<>>)
       \o StartsOfCuesWithText(parser, lines, i + 1)

SegmentsHaveText(items) ==
  \A k \in 1..Len(items) : Strip(GetText(items[k])) # <<>>

C25_NoEmptyChunk ==
  cfun # "none" => \A i \in 1..Len(chunks) : chunks[i] # <<>>

\* the same, for _chunk_text alone
C25_SummarizerNoEmptyChunk ==
  cfun = "summarizer" => \A i \in 1..Len(chunks) : chunks[i] # <<>>

\* ------------------------------------------------------------------------
\* Properties of a multi-chunk summarisation whose request fails
\* ------------------------------------------------------------------------
\* C27: in summarize_large and _summarize_chunks_with_gemini / _openai, when
\* the request for a chunk fails, it is the last request of the operation: no
\* request for a later chunk and no merge request follows it, and the
\* operation ends with the error, returning nothing.
C27_FailedChunkFailsTheWhole ==
  sfun \in {"chunks_gemini", "chunks_openai", "summarize_large"} =>
    \A k \in 1..Len(answers) :
      ~answers[k].ok =>
        /\ k = Len(reqs)
        /\ \A h \in 1..Len(reqs) : reqs[k].kind = "partial" => ~IsMerge(h)
        /\ spc = "raised"
        /\ sout.kind = "raised"
        /\ sout.value = <<>>

\* the request for the second of three chunks failed after the first had its
\* summary
C27_Witness ==
  /\ sfun \in {"chunks_gemini", "chunks_openai", "summarize_large"}
  /\ Len(schunks) = 3
  /\ Len(answers) = 2
  /\ answers[1].ok
  /\ ~answers[2].ok
  /\ Len(partials) = 1
  /\ spc = "raised"

====
